---- MODULE Spec2Model ----
(***************************************************************************)
(* Model of Fig5.py: the synthetic throughput formula                      *)
(* (generate_synthetic_throughput), the two panel builders, the 3x4 grid   *)
(* composer (create_figure5_grid) and the entry point (main, __main__).    *)
(*                                                                         *)
(* Numbers.  The factors of the formula are decimal fractions; they are    *)
(* kept as exact integers in fixed units:                                  *)
(*   thread_factor, contention_factor, noise : hundredths  (1.15 -> 115)   *)
(*   locality_factor, degradation            : thousandths (1.025 -> 1025) *)
(* A throughput is the exact product, in units of 10^-12 ops/s.  It does   *)
(* not fit a machine integer, so it is a sign and four base-10^6 limbs.    *)
(* Python computes the same products in binary floating point; at these    *)
(* magnitudes the sign of a product, and whether a factor is 1.0, below    *)
(* 1.0 or above 0, are the same in both.                                   *)
(***************************************************************************)
EXTENDS Integers, Sequences, FiniteSets, TLC

VARIABLES run1, run2, call

vars == <<run1, run2, call>>

(***************************************************************************)
(* Bounds of the model.                                                    *)
(***************************************************************************)
\* noise draws range over 100 + 25*d hundredths, d in -NoiseSteps..NoiseSteps
NoiseSteps == 5
\* number of states of the pseudorandom generator
RngStates == 3

(***************************************************************************)
(* Module-level configuration, lines 16-55.                                *)
(***************************************************************************)
NUM_NODES == <<5, 10, 20>>

CONTENTION_LEVELS == [high |-> 20, medium |-> 100, low |-> 1000]

LOCALITY_PERCENTAGES == <<85, 90, 95>>

THREADS_PER_NODE == <<2, 4, 6, 8, 10, 12>>

SYSTEMS == <<"ALock", "MCS", "Spin">>

SYSTEM_STYLE_COLS1_3 ==
    [ALock |-> <<"#1f77b4", "s", "-">>,
     MCS   |-> <<"#ff7f0e", "x", "--">>,
     Spin  |-> <<"#2ca02c", "o", ":">>]

SYSTEM_STYLE_COL4 ==
    [ALock |-> <<"purple", "o", "-">>,
     MCS   |-> <<"pink", "s", "--">>,
     Spin  |-> <<"orange", "x", ":">>]

LOCALITY_STYLES == (85 :> "-") @@ (90 :> "--") @@ (95 :> ":")

CONTENTION_STYLES == [high |-> "-", medium |-> "--", low |-> ":"]

\* the contention names, in the order create_subplot_col4 and
\* create_figure5_grid list them
CONTENTION_ORDER == <<"high", "medium", "low">>

\* the seed __main__ passes to np.random.seed
SEED == 42

Range(s) == {s[i] : i \in DOMAIN s}

(***************************************************************************)
(* Exact numbers: [neg, mag], mag the four base-10^6 limbs, lowest first.  *)
(***************************************************************************)
Num(n) ==
    LET B == 1000000
    IN  [neg |-> FALSE, mag |-> <<n % B, n \div B, 0, 0>>]

Zero == Num(0)

IsZero(x) == x.mag = <<0, 0, 0, 0>>

IsNeg(x) == x.neg /\ ~IsZero(x)

IsPos(x) == ~x.neg /\ ~IsZero(x)

\* x * k for an integer k with |k| <= 2000
MulInt(x, k) ==
    LET B  == 1000000
        a  == IF k < 0 THEN -k ELSE k
        p1 == x.mag[1] * a
        p2 == x.mag[2] * a + (p1 \div B)
        p3 == x.mag[3] * a + (p2 \div B)
        p4 == x.mag[4] * a + (p3 \div B)
        m  == <<p1 % B, p2 % B, p3 % B, p4 % B>>
    IN  [neg |-> IF m = <<0, 0, 0, 0>> THEN FALSE ELSE (x.neg # (k < 0)),
         mag |-> m]

\* the clamp left out
Max0Missing(x) == x

\* Python's max(0, x)
Max0(x) == IF IsNeg(x) THEN Zero ELSE x

(***************************************************************************)
(* generate_synthetic_throughput, lines 57-121.                            *)
(***************************************************************************)
total_threads(num_threads, num_nodes) == num_threads * num_nodes

base_throughput(system) ==
    IF system = "ALock" THEN 500000
    ELSE IF system = "MCS" THEN 200000
    ELSE 150000

\* hundredths
thread_factor(system, num_threads) ==
    IF system = "ALock" THEN 100 + (num_threads - 1) * 15
    ELSE IF system = "MCS" THEN 100 + (num_threads - 1) * 12
    ELSE 100 + (num_threads - 1) * 8

\* the override taken only above 100
locality_factor_le(system, locality) ==
    IF system = "ALock"
    THEN IF locality <= 100 THEN 1000 + (locality - 85) * 20 ELSE 1300
    ELSE IF system = "MCS"
    THEN IF locality <= 100 THEN 1000 + (locality - 85) * 10 ELSE 100
    ELSE IF locality <= 100 THEN 1000 + (locality - 85) * 5 ELSE 50

\* thousandths
locality_factor(system, locality) ==
    IF system = "ALock"
    THEN IF locality < 100 THEN 1000 + (locality - 85) * 20 ELSE 1300
    ELSE IF system = "MCS"
    THEN IF locality < 100 THEN 1000 + (locality - 85) * 10 ELSE 100
    ELSE IF locality < 100 THEN 1000 + (locality - 85) * 5 ELSE 50

\* hundredths
contention_factor(system, contention) ==
    IF system = "ALock"
    THEN IF contention = "high" THEN 120
         ELSE IF contention = "medium" THEN 100 ELSE 85
    ELSE IF system = "MCS"
    THEN IF contention = "high" THEN 60
         ELSE IF contention = "medium" THEN 90 ELSE 100
    ELSE IF contention = "high" THEN 40
         ELSE IF contention = "medium" THEN 70 ELSE 90

\* the knee of ALock used for MCS as well
degradation_knee(system, total) ==
    IF system = "ALock"
    THEN IF total > 100 THEN 1000 - (total - 100) * 1 ELSE 1000
    ELSE IF system = "MCS"
    THEN IF total > 100 THEN 1000 - (total - 100) * 2 ELSE 1000
    ELSE IF total > 40 THEN 1000 - (total - 40) * 3 ELSE 1000

\* the rate of Spin 0.005 instead of 0.003
degradation_rate(system, total) ==
    IF system = "ALock"
    THEN IF total > 100 THEN 1000 - (total - 100) * 1 ELSE 1000
    ELSE IF system = "MCS"
    THEN IF total > 80 THEN 1000 - (total - 80) * 2 ELSE 1000
    ELSE IF total > 40 THEN 1000 - (total - 40) * 5 ELSE 1000

\* thousandths
degradation(system, total) ==
    IF system = "ALock"
    THEN IF total > 100 THEN 1000 - (total - 100) * 1 ELSE 1000
    ELSE IF system = "MCS"
    THEN IF total > 80 THEN 1000 - (total - 80) * 2 ELSE 1000
    ELSE IF total > 40 THEN 1000 - (total - 40) * 3 ELSE 1000

\* lines 79, 97, 115: the product of the five factors, before the noise
raw_throughput(system, num_threads, num_nodes, contention, locality) ==
    MulInt(MulInt(MulInt(MulInt(Num(base_throughput(system)),
                                thread_factor(system, num_threads)),
                         locality_factor(system, locality)),
                  contention_factor(system, contention)),
           degradation(system, total_threads(num_threads, num_nodes)))

\* lines 118-121, with the value of the noise draw (hundredths) as a parameter
generate_synthetic_throughput(system, num_threads, num_nodes, contention, locality, noise) ==
    Max0(MulInt(raw_throughput(system, num_threads, num_nodes, contention, locality),
                noise))

(***************************************************************************)
(* The values one draw of np.random.normal(1.0, 0.05) ranges over.         *)
(***************************************************************************)
NoiseValues == {100 + 25 * d : d \in -NoiseSteps..NoiseSteps}

LOCALITIES == Range(LOCALITY_PERCENTAGES) \cup {100}

(***************************************************************************)
(* The pseudorandom generator behind np.random: a state in 0..RngStates-1. *)
(* A process starts with the generator in a state taken from the system's  *)
(* entropy; np.random.seed(n) puts it in a state that depends on n alone;  *)
(* a draw returns a value that depends on the state and moves to the next. *)
(***************************************************************************)
RngRange == 0..(RngStates - 1)

SeedState(n) == n % RngStates

NoiseOf(state) == 100 + 25 * (((4 * state) % (2 * NoiseSteps + 1)) - NoiseSteps)

NextRng(state) == (state + 1) % RngStates

(***************************************************************************)
(* One run of the program.  pc is the position of control:                 *)
(*   start     __main__, before np.random.seed                 line 312    *)
(*   main      before the call of main                         line 313    *)
(*   subplots  create_figure5_grid entered, before subplots    line 243    *)
(*   gen       before a call of generate_synthetic_throughput  136, 194    *)
(*   plot      a series complete, before ax.plot               142, 200    *)
(*   decorate  the 9 series plotted, before the decorations    169, 227    *)
(*   layout, savefig, close                                    282-285     *)
(*   return    create_figure5_grid returned                    line 299    *)
(*   except    an exception reached the handler of main        line 305    *)
(*   done      main returned                                               *)
(***************************************************************************)
None == "None"

Cells == (0..2) \X (0..3)

labels == <<"(a)", "(b)", "(c)", "(d)", "(e)", "(f)",
            "(g)", "(h)", "(i)", "(j)", "(k)", "(l)">>

col_titles == <<"20 Keys", "100 Keys", "1000 Keys", "100% Local">>

row_titles == <<"5 Nodes", "10 Nodes", "20 Nodes">>

save_path == "fig5_plots/figure5_grid.png"

\* an Axes as plt.subplots makes it
NewAxes == [lines |-> <<>>, texts |-> <<>>, xlabel |-> "", ylabel |-> "", title |-> ""]

InitRun(e) ==
    [pc |-> "start", entropy |-> e, rng |-> e, seeds |-> 0, drawn |-> 0,
     calls |-> <<>>, out |-> <<>>, gridCalls |-> 0, fig |-> "none", axes |-> <<>>,
     label_idx |-> 0, col_idx |-> 0, row_idx |-> 0,
     sys_idx |-> 1, var_idx |-> 1, thr_idx |-> 1,
     threads_list |-> <<>>, throughput_list |-> <<>>,
     saved |-> FALSE, returned |-> None, exc |-> FALSE, raisedAt |-> "none"]

\* the generator seeded from a value that differs from run to run
seed_from_entropy(s) ==
    IF s.pc = "start"
    THEN {[s EXCEPT !.pc = "main", !.rng = SeedState(s.entropy), !.seeds = @ + 1]}
    ELSE {}

\* line 312
seed(s) ==
    IF s.pc = "start"
    THEN {[s EXCEPT !.pc = "main", !.rng = SeedState(SEED), !.seeds = @ + 1]}
    ELSE {}

\* lines 293-298: the banner, then the try block calls create_figure5_grid
main(s) ==
    IF s.pc = "main"
    THEN {[s EXCEPT !.pc = "subplots",
                    !.out = @ \o <<"Generating Figure 5 grid layout...", "rule">>,
                    !.gridCalls = @ + 1]}
    ELSE {}

\* lines 243-258: the figure and its 3x4 axes, label_idx = 0, the loops begin
subplots(s) ==
    IF s.pc = "subplots"
    THEN {[s EXCEPT !.pc = "gen", !.fig = "open",
                    !.axes = [c \in Cells |-> NewAxes],
                    !.label_idx = 0, !.col_idx = 0, !.row_idx = 0,
                    !.sys_idx = 1, !.var_idx = 1, !.thr_idx = 1,
                    !.threads_list = <<>>, !.throughput_list = <<>>]}
    ELSE {}

\* the arguments of the call at line 136 (create_subplot_cols1_3, called at
\* lines 262-263) and at line 194 (create_subplot_col4)
call_args(s) ==
    IF s.col_idx < 3
    THEN [system      |-> SYSTEMS[s.sys_idx],
          num_threads |-> THREADS_PER_NODE[s.thr_idx],
          num_nodes   |-> NUM_NODES[s.row_idx + 1],
          contention  |-> CONTENTION_ORDER[s.col_idx + 1],
          locality    |-> LOCALITY_PERCENTAGES[s.var_idx]]
    ELSE [system      |-> SYSTEMS[s.sys_idx],
          num_threads |-> THREADS_PER_NODE[s.thr_idx],
          num_nodes   |-> NUM_NODES[s.row_idx + 1],
          contention  |-> CONTENTION_ORDER[s.var_idx],
          locality    |-> 100]

\* lines 135-140, 193-198: one iteration of the loop over THREADS_PER_NODE
gen_call(s) ==
    IF s.pc = "gen"
    THEN LET a     == call_args(s)
             noise == NoiseOf(s.rng)
             t     == generate_synthetic_throughput(a.system, a.num_threads,
                          a.num_nodes, a.contention, a.locality, noise)
             last  == s.thr_idx = Len(THREADS_PER_NODE)
         IN  {[s EXCEPT !.rng = NextRng(@),
                        !.drawn = @ + 1,
                        !.calls = Append(@, a @@ [noise |-> noise, throughput |-> t]),
                        !.threads_list = Append(@, a.num_threads),
                        !.throughput_list = Append(@, t),
                        !.thr_idx = IF last THEN @ ELSE @ + 1,
                        !.pc = IF last THEN "plot" ELSE "gen"]}
    ELSE {}

\* a label for every system
series_label_every_system(system, locality) ==
    system \o " " \o ToString(locality) \o "%"

\* lines 142-143
series_label_cols1_3(system, locality) ==
    IF system = SYSTEMS[1]
    THEN system \o " " \o ToString(locality) \o "%"
    ELSE None

\* lines 200-201
series_label_col4(system, contention) ==
    IF system = SYSTEMS[1]
    THEN system \o " " \o ToString(CONTENTION_LEVELS[contention])
    ELSE None

\* lines 146-154, 204-212: the marker and its edge width follow the line style
plot_marker(linestyle, marker) ==
    IF linestyle = ":" THEN <<"s", 1>>
    ELSE IF linestyle = "--" THEN <<"x", 2>>
    ELSE <<marker, 1>>

\* the series ax.plot receives, lines 157-167 and 215-225
series(s) ==
    LET system == SYSTEMS[s.sys_idx]
        style  == IF s.col_idx < 3 THEN SYSTEM_STYLE_COLS1_3[system]
                  ELSE SYSTEM_STYLE_COL4[system]
        ls     == IF s.col_idx < 3
                  THEN LOCALITY_STYLES[LOCALITY_PERCENTAGES[s.var_idx]]
                  ELSE CONTENTION_STYLES[CONTENTION_ORDER[s.var_idx]]
        mk     == plot_marker(ls, style[2])
    IN  [x |-> s.threads_list, y |-> s.throughput_list,
         color |-> style[1], marker |-> mk[1], linestyle |-> ls,
         markeredgewidth |-> mk[2],
         label |-> IF s.col_idx < 3
                   THEN series_label_cols1_3(system, LOCALITY_PERCENTAGES[s.var_idx])
                   ELSE series_label_col4(system, CONTENTION_ORDER[s.var_idx])]

\* the two loops exchanged: the system is the inner loop
next_series_system_inner(s) ==
    IF s.sys_idx < 3 THEN <<s.sys_idx + 1, s.var_idx>> ELSE <<1, s.var_idx + 1>>

\* the next (system, variant) of the loops at lines 128-131 and 186-189:
\* the variant is the inner loop
next_series(s) ==
    IF s.var_idx < 3 THEN <<s.sys_idx, s.var_idx + 1>> ELSE <<s.sys_idx + 1, 1>>

\* lines 142-167, 200-225: the series is plotted and the loops move on
plot_series(s) ==
    IF s.pc = "plot"
    THEN LET cell == <<s.row_idx, s.col_idx>>
             last == s.sys_idx = Len(SYSTEMS) /\ s.var_idx = 3
             nxt  == next_series(s)
         IN  {[s EXCEPT !.axes[cell].lines = Append(@, series(s)),
                        !.threads_list = IF last THEN @ ELSE <<>>,
                        !.throughput_list = IF last THEN @ ELSE <<>>,
                        !.sys_idx = IF last THEN @ ELSE nxt[1],
                        !.var_idx = IF last THEN @ ELSE nxt[2],
                        !.thr_idx = IF last THEN @ ELSE 1,
                        !.pc = IF last THEN "decorate" ELSE "gen"]}
    ELSE {}

\* the two loops exchanged: the column is the inner loop
next_cell_row_major(s) ==
    IF s.col_idx < 3 THEN <<s.row_idx, s.col_idx + 1>> ELSE <<s.row_idx + 1, 0>>

\* the next (row, column) of the loops at lines 257-258: the row is the inner loop
next_cell(s) ==
    IF s.row_idx < 2 THEN <<s.row_idx + 1, s.col_idx>> ELSE <<0, s.col_idx + 1>>

\* lines 169-179 (227-237) and 267-278: the axis labels, the panel label, the
\* title, and the loops move on to the next panel
decorate(s) ==
    IF s.pc = "decorate"
    THEN LET cell == <<s.row_idx, s.col_idx>>
             last == s.col_idx = 3 /\ s.row_idx = 2
             nxt  == next_cell(s)
         IN  {[s EXCEPT !.axes[cell].xlabel = "Threads per Node",
                        !.axes[cell].ylabel = IF s.col_idx > 0 THEN ""
                                              ELSE "Throughput (ops/s)",
                        !.axes[cell].texts = Append(@, labels[s.label_idx + 1]),
                        !.axes[cell].title = col_titles[s.col_idx + 1] \o ", "
                                                 \o row_titles[s.row_idx + 1],
                        !.label_idx = @ + 1,
                        !.row_idx = IF last THEN @ ELSE nxt[1],
                        !.col_idx = IF last THEN @ ELSE nxt[2],
                        !.sys_idx = 1, !.var_idx = 1, !.thr_idx = 1,
                        !.threads_list = <<>>, !.throughput_list = <<>>,
                        !.pc = IF last THEN "layout" ELSE "gen"]}
    ELSE {}

\* line 282
tight_layout(s) ==
    IF s.pc = "layout" THEN {[s EXCEPT !.pc = "savefig"]} ELSE {}

\* lines 283-284
savefig(s) ==
    IF s.pc = "savefig" THEN {[s EXCEPT !.pc = "close", !.saved = TRUE]} ELSE {}

\* lines 285-287
close(s) ==
    IF s.pc = "close"
    THEN {[s EXCEPT !.pc = "return", !.fig = "closed", !.returned = save_path]}
    ELSE {}

\* lines 299-303
main_success(s) ==
    IF s.pc = "return"
    THEN {[s EXCEPT !.pc = "done",
                    !.out = @ \o <<"rule", "Successfully generated Figure 5 grid",
                                   "Note: This uses synthetic data.">>]}
    ELSE {}

\* the positions inside create_figure5_grid
GridPcs == {"subplots", "gen", "plot", "decorate", "layout", "savefig", "close"}

\* the statement at the current position of create_figure5_grid raises an
\* exception: nothing between it and the try block of main (line 296) handles
\* it, so control reaches the handler at line 305
raise(s) ==
    IF s.pc \in GridPcs
    THEN {[s EXCEPT !.pc = "except", !.exc = TRUE, !.raisedAt = s.pc]}
    ELSE {}

\* a handler that prints and raises the exception again
main_except_reraise(s) ==
    IF s.pc = "except"
    THEN {[s EXCEPT !.pc = "done",
                    !.out = @ \o <<"Error generating plot", "traceback">>]}
    ELSE {}

\* lines 305-308: the exception is handled (exc is cleared), the message and
\* the traceback are printed, main returns
main_except(s) ==
    IF s.pc = "except"
    THEN {[s EXCEPT !.pc = "done", !.exc = FALSE,
                    !.out = @ \o <<"Error generating plot", "traceback">>]}
    ELSE {}

\* every step a run can take
Steps(s) ==
    seed(s) \cup main(s) \cup subplots(s) \cup gen_call(s) \cup plot_series(s)
    \cup decorate(s) \cup tight_layout(s) \cup savefig(s) \cup close(s)
    \cup main_success(s) \cup raise(s) \cup main_except(s)

(***************************************************************************)
(* One run, from a generator state the entropy chose.                      *)
(***************************************************************************)
NoCall == [made |-> FALSE]

Seed == \E t \in seed(run1) : run1' = t /\ UNCHANGED <<run2, call>>

Main == \E t \in main(run1) : run1' = t /\ UNCHANGED <<run2, call>>

Subplots == \E t \in subplots(run1) : run1' = t /\ UNCHANGED <<run2, call>>

GenCall == \E t \in gen_call(run1) : run1' = t /\ UNCHANGED <<run2, call>>

PlotSeries == \E t \in plot_series(run1) : run1' = t /\ UNCHANGED <<run2, call>>

Decorate == \E t \in decorate(run1) : run1' = t /\ UNCHANGED <<run2, call>>

TightLayout == \E t \in tight_layout(run1) : run1' = t /\ UNCHANGED <<run2, call>>

SaveFig == \E t \in savefig(run1) : run1' = t /\ UNCHANGED <<run2, call>>

Close == \E t \in close(run1) : run1' = t /\ UNCHANGED <<run2, call>>

MainSuccess == \E t \in main_success(run1) : run1' = t /\ UNCHANGED <<run2, call>>

Raise == \E t \in raise(run1) : run1' = t /\ UNCHANGED <<run2, call>>

MainExcept == \E t \in main_except(run1) : run1' = t /\ UNCHANGED <<run2, call>>

Init == run1 \in {InitRun(e) : e \in RngRange} /\ run2 = InitRun(0) /\ call = NoCall

Next ==
    \/ Seed \/ Main \/ Subplots \/ GenCall \/ PlotSeries \/ Decorate
    \/ TightLayout \/ SaveFig \/ Close \/ MainSuccess \/ Raise \/ MainExcept

Spec == Init /\ [][Next]_vars

(***************************************************************************)
(* Two runs of the program, each from its own generator state, stepped     *)
(* side by side for as long as both are running.                           *)
(***************************************************************************)
PairStep ==
    /\ run1.pc # "done" /\ run2.pc # "done"
    /\ \E a \in Steps(run1), b \in Steps(run2) : run1' = a /\ run2' = b
    /\ UNCHANGED call

InitPair ==
    /\ run1 \in {InitRun(e) : e \in RngRange}
    /\ run2 \in {InitRun(e) : e \in RngRange}
    /\ call = NoCall

NextPair == PairStep

SpecPair == InitPair /\ [][NextPair]_vars

(***************************************************************************)
(* One call of generate_synthetic_throughput: the arguments are any tuple  *)
(* of the grid, the noise draw any value; the call records the factors the *)
(* claims are about and the value returned.                                *)
(***************************************************************************)
CallArgs ==
    [made : {FALSE}, system : Range(SYSTEMS), num_threads : Range(THREADS_PER_NODE),
     num_nodes : Range(NUM_NODES), contention : DOMAIN CONTENTION_LEVELS,
     locality : LOCALITIES, noise : NoiseValues]

CallThroughput ==
    /\ ~call.made
    /\ LET raw == raw_throughput(call.system, call.num_threads, call.num_nodes,
                                 call.contention, call.locality)
       IN  call' = [made            |-> TRUE,
                    system          |-> call.system,
                    num_threads     |-> call.num_threads,
                    num_nodes       |-> call.num_nodes,
                    contention      |-> call.contention,
                    locality        |-> call.locality,
                    noise           |-> call.noise,
                    total_threads   |-> total_threads(call.num_threads, call.num_nodes),
                    locality_factor |-> locality_factor(call.system, call.locality),
                    degradation     |-> degradation(call.system,
                                           total_threads(call.num_threads, call.num_nodes)),
                    raw             |-> raw,
                    unclamped       |-> MulInt(raw, call.noise),
                    throughput      |-> generate_synthetic_throughput(call.system,
                                           call.num_threads, call.num_nodes,
                                           call.contention, call.locality, call.noise)]
    /\ UNCHANGED <<run1, run2>>

InitFn == run1 = InitRun(0) /\ run2 = InitRun(0) /\ call \in CallArgs

NextFn == CallThroughput

SpecFn == InitFn /\ [][NextFn]_vars

(***************************************************************************)
(* Claims about generate_synthetic_throughput, checked under SpecFn.       *)
(***************************************************************************)

\* C1: for every tuple of the grid and every value of the noise draw, zero and
\* negative values included, the value returned is >= 0.
C1_NonNegative == call.made => ~IsNeg(call.throughput)

\* a call with a negative draw, whose product is negative, returned zero
C1_Witness ==
    /\ call.made
    /\ call.noise < 0
    /\ IsNeg(call.unclamped)
    /\ call.throughput = Zero

LocalityOverride == [ALock |-> 1300, MCS |-> 100, Spin |-> 50]

LocalitySlope == [ALock |-> 20, MCS |-> 10, Spin |-> 5]

LinearLocality(system, locality) == 1000 + (locality - 85) * LocalitySlope[system]

Knee == [ALock |-> 100, MCS |-> 80, Spin |-> 40]

DecayRate == [ALock |-> 1, MCS |-> 2, Spin |-> 3]

\* C5: with totalThreads = threadsPerNode * nodeCount, the degradation factor is
\* exactly 1.0 when totalThreads <= knee (100, 80, 40), the knee itself included,
\* and 1 - (totalThreads - knee) * rate (0.001, 0.002, 0.003), strictly below
\* 1.0, when totalThreads > knee.
C5_Degradation ==
    call.made =>
        /\ call.total_threads = call.num_threads * call.num_nodes
        /\ call.total_threads <= Knee[call.system] => call.degradation = 1000
        /\ call.total_threads > Knee[call.system] =>
              /\ call.degradation =
                    1000 - (call.total_threads - Knee[call.system]) * DecayRate[call.system]
              /\ call.degradation < 1000

\* MCS with 10 threads on 10 nodes: 100 threads, above its knee of 80 and at
\* the knee of ALock
C5_Witness ==
    /\ call.made
    /\ call.system = "MCS"
    /\ call.total_threads = 100
    /\ call.degradation = 960

\* C10: on the grid the degradation factor is strictly positive, so the product
\* of the five factors before the noise is strictly positive, and the clamp
\* max(0, .) changes the result only when the noise draw is negative.
C10_ClampOnlyOnNegativeNoise ==
    call.made =>
        /\ call.degradation > 0
        /\ IsPos(call.raw)
        /\ call.throughput # call.unclamped => call.noise < 0

\* Spin with 12 threads on 20 nodes (240 threads, the smallest factor of the
\* grid, 0.4) and a negative draw: the clamp replaces the product by zero
C10_Witness ==
    /\ call.made
    /\ call.system = "Spin"
    /\ call.total_threads = 240
    /\ call.degradation = 400
    /\ call.noise < 0
    /\ call.throughput # call.unclamped

(***************************************************************************)
(* Claims about one run, checked under Spec.                               *)
(***************************************************************************)
Completed(s) ==
    s.pc \in {"layout", "savefig", "close", "return"}
    \/ (s.pc = "done" /\ s.returned = save_path)

\* the panels whose decorations are in place
Labelled(s) == {c \in DOMAIN s.axes : Len(s.axes[c].texts) > 0}

\* C2: a complete run fills exactly 12 panels, every cell of the 3x4 grid once,
\* plots exactly 9 series in each, and gives the panel at row r, column c the
\* label of index 3*c + r of (a)..(l): no label twice, none past (l).
C2_Grid ==
    /\ run1.label_idx <= 12
    /\ Cardinality(Labelled(run1)) = run1.label_idx
    /\ \A c \in DOMAIN run1.axes :
          /\ Len(run1.axes[c].lines) <= 9
          /\ Len(run1.axes[c].texts) <= 1
          /\ c \in Labelled(run1) =>
                /\ Len(run1.axes[c].lines) = 9
                /\ run1.axes[c].texts = <<labels[3 * c[2] + c[1] + 1]>>
    /\ \A c, d \in Labelled(run1) :
          run1.axes[c].texts = run1.axes[d].texts => c = d
    /\ Completed(run1) =>
          /\ Labelled(run1) = Cells
          /\ Cardinality(Labelled(run1)) = 12

\* the run is over and returned the path: (d) is at row 0 of column 1, (l) at
\* row 2 of column 3
C2_Witness ==
    /\ run1.pc = "done"
    /\ run1.returned = save_path
    /\ run1.axes[<<0, 1>>].texts = <<"(d)">>
    /\ run1.axes[<<2, 3>>].texts = <<"(l)">>
    /\ Len(run1.axes[<<2, 3>>].lines) = 9

\* the colour of a system's series and the line style of the v-th variant in
\* a panel of column col
SystemColor(system, col) ==
    IF col < 3 THEN SYSTEM_STYLE_COLS1_3[system][1] ELSE SYSTEM_STYLE_COL4[system][1]

VariantStyle(v) == <<"-", "--", ":">>[v]

\* the series of a panel that carry a label and belong to the system and variant
LabelledSeries(ax, system, col, v) ==
    {i \in 1..Len(ax.lines) :
        /\ ax.lines[i].label # None
        /\ ax.lines[i].color = SystemColor(system, col)
        /\ ax.lines[i].linestyle = VariantStyle(v)}

NoLabelTwice(ax) ==
    \A i, j \in 1..Len(ax.lines) :
        (ax.lines[i].label # None /\ ax.lines[i].label = ax.lines[j].label) => i = j

\* C3 as stated: in every panel, for each of the 3 systems and each of the 3
\* variants exactly one plotted series carries a legend label, and no label
\* occurs twice.
C3_OnePerCombination ==
    \A c \in Labelled(run1) :
        /\ \A system \in Range(SYSTEMS), v \in 1..3 :
              Cardinality(LabelledSeries(run1.axes[c], system, c[2], v)) = 1
        /\ NoLabelTwice(run1.axes[c])

VariantLabels(col) ==
    IF col < 3 THEN <<"ALock 85%", "ALock 90%", "ALock 95%">>
    ELSE <<"ALock 20", "ALock 100", "ALock 1000">>

\* C3 amended: in every panel exactly 3 series carry a legend label, one for
\* each variant, and all three are series of the first system, ALock ("ALock
\* 85%", "ALock 90%", "ALock 95%" in columns 0-2, "ALock 20", "ALock 100",
\* "ALock 1000" in column 3); the series of MCS and Spin carry no label; no
\* label occurs twice in a panel.
C3_FirstSystemOnly ==
    \A c \in Labelled(run1) :
        /\ \A v \in 1..3 :
              /\ Cardinality(LabelledSeries(run1.axes[c], "ALock", c[2], v)) = 1
              /\ \A i \in LabelledSeries(run1.axes[c], "ALock", c[2], v) :
                    run1.axes[c].lines[i].label = VariantLabels(c[2])[v]
        /\ \A system \in {"MCS", "Spin"}, v \in 1..3 :
              LabelledSeries(run1.axes[c], system, c[2], v) = {}
        /\ Cardinality({i \in 1..Len(run1.axes[c].lines) :
                           run1.axes[c].lines[i].label # None}) = 3
        /\ NoLabelTwice(run1.axes[c])

\* a finished panel of column 0 and one of column 3: the first series is
\* ALock's and labelled, the fourth is MCS's and is not
C3_Witness ==
    /\ Labelled(run1) = Cells
    /\ run1.axes[<<0, 0>>].lines[1].label = "ALock 85%"
    /\ run1.axes[<<0, 0>>].lines[4].label = None
    /\ run1.axes[<<0, 0>>].lines[4].color = "#ff7f0e"
    /\ run1.axes[<<1, 3>>].lines[3].label = "ALock 1000"
    /\ run1.axes[<<1, 3>>].lines[7].label = None

\* the arguments of the i-th call of a complete run, by position: column
\* outermost, then row, system, variant, threads innermost
ExpectedTuple(i) ==
    LET k   == i - 1
        thr == k % 6
        v   == (k \div 6) % 3
        sy  == (k \div 18) % 3
        row == (k \div 54) % 3
        col == k \div 162
    IN  [system      |-> <<"ALock", "MCS", "Spin">>[sy + 1],
         num_threads |-> 2 * (thr + 1),
         num_nodes   |-> <<5, 10, 20>>[row + 1],
         contention  |-> IF col < 3 THEN <<"high", "medium", "low">>[col + 1]
                         ELSE <<"high", "medium", "low">>[v + 1],
         locality    |-> IF col < 3 THEN <<85, 90, 95>>[v + 1] ELSE 100]

CallTuple(c) ==
    [system |-> c.system, num_threads |-> c.num_threads, num_nodes |-> c.num_nodes,
     contention |-> c.contention, locality |-> c.locality]

Printed(s, line) == \E i \in 1..Len(s.out) : s.out[i] = line

\* C7: an exception raised at any step of create_figure5_grid is caught in
\* main: main prints the error message and the trace, never the success
\* message, does not call create_figure5_grid again, and returns normally, the
\* exception not propagating to its caller.
C7_CaughtInMain ==
    /\ run1.gridCalls <= 1
    /\ run1.exc => run1.pc = "except"
    /\ run1.raisedAt # "none" =>
          /\ run1.pc \in {"except", "done"}
          /\ run1.gridCalls = 1
          /\ ~Printed(run1, "Successfully generated Figure 5 grid")
    /\ (run1.raisedAt # "none" /\ run1.pc = "done") =>
          /\ ~run1.exc
          /\ Printed(run1, "Error generating plot")
          /\ Printed(run1, "traceback")

\* savefig raised; main printed the error and returned
C7_Witness ==
    /\ run1.pc = "done"
    /\ run1.raisedAt = "savefig"
    /\ ~run1.exc
    /\ Printed(run1, "Error generating plot")
    /\ ~run1.saved

\* C8: in every execution in which the figure has been created, the figure is
\* closed before control leaves main, whether the construction of the panels,
\* the layout and the saving succeeded or one of them raised.
C8_FigureClosed ==
    (run1.pc = "done" /\ run1.fig # "none") => run1.fig = "closed"

(***************************************************************************)
(* The claim about two runs, checked under SpecPair.                       *)
(***************************************************************************)
Prefix(q, n) == SubSeq(q, 1, n)

SeededOnce(s) ==
    /\ s.seeds <= 1
    /\ (s.pc # "start" \/ s.drawn > 0) => s.seeds = 1

\* C6: two runs from the entry point produce identical throughput sequences:
\* the generator is seeded once before the first call of
\* generate_synthetic_throughput and never again, and the i-th draw of both
\* runs has the same value and is paired with the same parameter tuple.
C6_SameSequences ==
    LET n == IF Len(run1.calls) < Len(run2.calls) THEN Len(run1.calls)
             ELSE Len(run2.calls)
    IN  /\ SeededOnce(run1)
        /\ SeededOnce(run2)
        /\ Prefix(run1.calls, n) = Prefix(run2.calls, n)
        /\ (Completed(run1) /\ Completed(run2)) =>
              /\ run1.calls = run2.calls
              /\ run1.axes = run2.axes

\* two runs whose generators started in different states are both over, with
\* the same 648 throughputs
C6_Witness ==
    /\ run1.entropy # run2.entropy
    /\ run1.pc = "done" /\ run1.returned = save_path
    /\ run2.pc = "done" /\ run2.returned = save_path
    /\ Len(run1.calls) = 648
    /\ run1.calls = run2.calls
====
